---- MODULE Spec2Model ----
(***************************************************************************)
(* Model of src/h64.rs: pre-hashed 64-bit integers (H64), the sequential   *)
(* H64Allocator and the identity hasher H64Hasher.                         *)
(*                                                                         *)
(* A u64 is a tuple of 8 bytes, most significant byte first, so that       *)
(* 0xBF58476D1CE4E5B9 is <<\hBF, \h58, \h47, \h6D, \h1C, \hE4, \hE5, \hB9>>.*)
(* All arithmetic is carried out on the bytes and is exact modulo 2^64.    *)
(***************************************************************************)
EXTENDS Integers, Sequences, FiniteSets, TLC

(***************************************************************************)
(* State.  The library's objects share no state: an H64 is an immutable    *)
(* value, each H64Allocator owns its counter and each H64Hasher its result.*)
(* A run is one client program using one kind of object:                   *)
(*   "values"      makes H64s, recovers their u64s, formats and compares;  *)
(*   "allocators"  calls alloc on two allocators in any interleaving;      *)
(*   "hasher"      drives one H64Hasher, directly and through H64's Hash.  *)
(* A panic ends the run.                                                   *)
(***************************************************************************)
VARIABLES
    client,           \* the client program of this run
    overflow_checks,  \* the build: TRUE with overflow checks (debug, test)
    arg,              \* per slot: the u64 the H64 in it was made from
    h64,              \* per slot: the stored bits of an H64, or NONE
    unhashed,         \* per slot: what unhash returned for it, or NONE
    text,             \* <<>> or <<[slot, debug, display]>>: formatted output
    next,             \* per allocator: H64Allocator.0
    returned,         \* per allocator: the bits alloc returned, in order
    lastAlloc,        \* <<>> or <<[alloc, counter]>>: the last alloc call
    hasher,           \* H64Hasher.0
    log,              \* the calls made on the hasher since it was created:
                      \* [op, val, key, of], val the argument (the result
                      \* for finish), key the u64 whose H64 issued the call
    panicked          \* NoPanic or the message of the panic that ended the run

vars == <<client, overflow_checks, arg, h64, unhashed, text, next, returned,
          lastAlloc, hasher, log, panicked>>

vars_values == <<arg, h64, unhashed, text>>

vars_allocators == <<next, returned, lastAlloc>>

vars_hasher == <<hasher, log>>

(***************************************************************************)
(* u64 arithmetic                                                          *)
(***************************************************************************)
U64_ZERO == <<0, 0, 0, 0, 0, 0, 0, 0>>

U64_ONE == <<0, 0, 0, 0, 0, 0, 0, 1>>

U64_MAX == <<\hFF, \hFF, \hFF, \hFF, \hFF, \hFF, \hFF, \hFF>>

\* The byte of significance k (0 is the least significant); 0 beyond the top.
ByteAt(x, k) == IF k >= 0 /\ k < 8 THEN x[8 - k] ELSE 0

\* Byte k of x >> (8 * q + r).
ShrByte(x, k, q, r) ==
    (ByteAt(x, k + q) \div 2^r) + (ByteAt(x, k + q + 1) % 2^r) * 2^(8 - r)

\* x >> s on u64 (logical shift, zero fill).
shr(x, s) ==
    LET q == s \div 8
        r == s % 8
    IN  <<ShrByte(x, 7, q, r), ShrByte(x, 6, q, r), ShrByte(x, 5, q, r),
          ShrByte(x, 4, q, r), ShrByte(x, 3, q, r), ShrByte(x, 2, q, r),
          ShrByte(x, 1, q, r), ShrByte(x, 0, q, r)>>

RECURSIVE XorBits(_, _, _)
\* Bitwise exclusive or of the low n bits of a and b.
XorBits(a, b, n) ==
    IF n = 0 THEN 0
    ELSE ((a + b) % 2) + 2 * XorBits(a \div 2, b \div 2, n - 1)

\* x ^ y on u64.
xor(x, y) ==
    <<XorBits(x[1], y[1], 8), XorBits(x[2], y[2], 8), XorBits(x[3], y[3], 8),
      XorBits(x[4], y[4], 8), XorBits(x[5], y[5], 8), XorBits(x[6], y[6], 8),
      XorBits(x[7], y[7], 8), XorBits(x[8], y[8], 8)>>

RECURSIVE ColSum(_, _, _, _)
\* Sum of the byte products x_i * y_(k-i) for i in from..k.
ColSum(x, y, k, from) ==
    IF from > k THEN 0
    ELSE ByteAt(x, from) * ByteAt(y, k - from) + ColSum(x, y, k, from + 1)

RECURSIVE MulFrom(_, _, _, _)
\* Bytes k..7 of x * y, most significant first, where t is the sum of the
\* byte products of significance k plus the carry out of byte k - 1.
MulFrom(x, y, k, t) ==
    IF k = 7 THEN <<t % 256>>
    ELSE MulFrom(x, y, k + 1, ColSum(x, y, k + 1, 0) + (t \div 256))
         \o <<t % 256>>

\* u64::wrapping_mul: the low 64 bits of the product.
wrapping_mul(x, y) == MulFrom(x, y, 0, ColSum(x, y, 0, 0))

RECURSIVE AddFrom(_, _, _, _)
\* Bytes k..7 of x + y, most significant first, where t is the sum of the
\* bytes of significance k plus the carry out of byte k - 1.
AddFrom(x, y, k, t) ==
    IF k = 7 THEN <<t % 256>>
    ELSE AddFrom(x, y, k + 1, ByteAt(x, k + 1) + ByteAt(y, k + 1) + (t \div 256))
         \o <<t % 256>>

\* x + y modulo 2^64.
wrapping_add(x, y) == AddFrom(x, y, 0, ByteAt(x, 0) + ByteAt(y, 0))

RECURSIVE CarryFrom(_, _, _, _)
\* The carry out of byte 7 of x + y given the carry into byte k.
CarryFrom(x, y, k, carry) ==
    IF k = 8 THEN carry
    ELSE CarryFrom(x, y, k + 1, (ByteAt(x, k) + ByteAt(y, k) + carry) \div 256)

\* TRUE iff x + y does not fit in 64 bits.
add_overflows(x, y) == CarryFrom(x, y, 0, 0) # 0

(***************************************************************************)
(* u64 decimal formatting (core::fmt of u64 with the default format spec)  *)
(***************************************************************************)
RECURSIVE QuotFrom(_, _, _)
\* Long division by ten, from byte i on: the quotient bytes i..8, where cur
\* is 256 * (the remainder left by bytes 1..i-1) + x[i].
QuotFrom(x, i, cur) ==
    IF i = 8 THEN <<cur \div 10>>
    ELSE <<cur \div 10>> \o QuotFrom(x, i + 1, (cur % 10) * 256 + x[i + 1])

RECURSIVE RemFrom(_, _, _)
\* Long division by ten, from byte i on: the final remainder.
RemFrom(x, i, cur) ==
    IF i = 8 THEN cur % 10
    ELSE RemFrom(x, i + 1, (cur % 10) * 256 + x[i + 1])

DigitChar(d) == SubSeq("0123456789", d + 1, d + 1)

RECURSIVE Digits(_)
Digits(x) ==
    IF x = U64_ZERO THEN ""
    ELSE Digits(QuotFrom(x, 1, x[1])) \o DigitChar(RemFrom(x, 1, x[1]))

\* The decimal text of a u64.
u64_fmt(x) == IF x = U64_ZERO THEN "0" ELSE Digits(x)

(***************************************************************************)
(* H64                                                                     *)
(***************************************************************************)
HASH_MUL_1 == <<\hBF, \h58, \h47, \h6D, \h1C, \hE4, \hE5, \hB9>>

HASH_MUL_2 == <<\h94, \hD0, \h49, \hBB, \h13, \h31, \h11, \hEB>>

UNHASH_MUL_1 == <<\h31, \h96, \h42, \hB2, \hD2, \h4D, \h8E, \hC3>>

UNHASH_MUL_2 == <<\h96, \hDE, \h1B, \h17, \h3F, \h11, \h90, \h89>>

\* i ^ i >> s
XorShift(i, s) == xor(i, shr(i, s))

\* i ^ i >> s ^ i >> t
XorShift2(i, s, t) == xor(xor(i, shr(i, s)), shr(i, t))

\* (i ^ i) >> s
XorFirstShift(i, s) == shr(xor(i, i), s)

\* H64::hash with `i ^ i >> s` read as `(i ^ i) >> s` in each step.
hash_xor_first(i) ==
    XorFirstShift(
        wrapping_mul(
            XorFirstShift(wrapping_mul(XorFirstShift(i, 30), HASH_MUL_1), 27),
            HASH_MUL_2),
        31)

\* H64::hash: the stored bits of the H64 made from i.
hash(i) ==
    XorShift(
        wrapping_mul(
            XorShift(wrapping_mul(XorShift(i, 30), HASH_MUL_1), 27),
            HASH_MUL_2),
        31)

\* H64::unhash undoing each xor-shift with a single shift.
unhash_one_shift(h) ==
    XorShift(
        wrapping_mul(
            XorShift(wrapping_mul(XorShift(h, 31), UNHASH_MUL_1), 27),
            UNHASH_MUL_2),
        30)

\* H64::unhash: the original u64 of the H64 whose stored bits are h.
unhash(h) ==
    XorShift2(
        wrapping_mul(
            XorShift2(wrapping_mul(XorShift2(h, 31, 62), UNHASH_MUL_1), 27, 54),
            UNHASH_MUL_2),
        30, 60)

(***************************************************************************)
(* impl fmt::Debug / fmt::Display / PartialEq / Hash for H64               *)
(***************************************************************************)
\* Debug formatting the stored bits instead of the original u64.
H64_Debug_fmt_bits(self) == u64_fmt(self)

\* <H64 as fmt::Debug>::fmt with the default format spec: the text written.
H64_Debug_fmt(self) == u64_fmt(unhash(self))

\* <H64 as fmt::Display>::fmt with the default format spec: the text written.
H64_Display_fmt(self) == u64_fmt(unhash(self))

\* #[derive(PartialEq)] on the tuple struct: equality of the stored bits.
H64_eq(self, other) == self = other

\* Hashing the H64 as its eight bytes, through Hasher::write.
H64_Hash_hash_bytes(self) == <<[op |-> "write", arg |-> self]>>

\* #[derive(Hash)] on the tuple struct: the calls made on the Hasher, in
\* order. The only field is a u64, whose Hash impl calls write_u64 once.
H64_Hash_hash(self) == <<[op |-> "write_u64", arg |-> self]>>

(***************************************************************************)
(* H64Allocator                                                            *)
(***************************************************************************)
NONE == <<>>

NoPanic == ""

AddOverflowPanic == "attempt to add with overflow"

UnimplementedPanic == "not implemented: only use with H64"

\* H64Allocator::new: the counter of a new allocator.
H64Allocator_new == U64_ZERO

\* The u64 of a small natural number.
FromNat(n) == <<0, 0, 0, 0, 0, 0, n \div 256, n % 256>>

\* alloc incrementing the counter before hashing it.
alloc_increment_first(self, checks) ==
    [ret |-> hash(wrapping_add(self, U64_ONE)),
     self |-> wrapping_add(self, U64_ONE), panic |-> NoPanic]

\* alloc leaving the counter as it is.
alloc_no_increment(self, checks) ==
    [ret |-> hash(self), self |-> self, panic |-> NoPanic]

\* alloc hashing a counter shared by all allocators of the process.
alloc_global(self, checks) ==
    [ret |-> hash(FromNat(Len(returned[1]) + Len(returned[2]))),
     self |-> wrapping_add(self, U64_ONE), panic |-> NoPanic]

\* H64Allocator::alloc on an allocator whose counter is self. `self.0 += 1`
\* panics on overflow when the build has overflow checks (debug, test) and
\* wraps when it has none (release); the panic leaves the counter as it was
\* and returns nothing.
alloc(self, checks) ==
    IF checks /\ add_overflows(self, U64_ONE)
    THEN [ret |-> NONE, self |-> self, panic |-> AddOverflowPanic]
    ELSE [ret |-> hash(self), self |-> wrapping_add(self, U64_ONE),
          panic |-> NoPanic]

(***************************************************************************)
(* H64Hasher                                                               *)
(***************************************************************************)
\* #[derive(Default)]: the state of a new hasher.
H64Hasher_default == U64_ZERO

\* Hasher::finish
finish(self) == self

\* write returning normally and leaving the state as it is.
write_silent(self, bytes) == [self |-> self, panic |-> NoPanic]

\* Hasher::write: unimplemented!, whatever the state and the bytes.
write(self, bytes) == [self |-> self, panic |-> UnimplementedPanic]

\* write_u64 folding i into the state.
write_u64_accumulate(self, i) == [self |-> xor(self, i), panic |-> NoPanic]

\* Hasher::write_u64
write_u64(self, i) == [self |-> i, panic |-> NoPanic]

\* One call on the Hasher, as a derived Hash impl issues it.
HasherCall(self, c) ==
    IF c.op = "write_u64" THEN write_u64(self, c.arg) ELSE write(self, c.arg)

RECURSIVE HasherCalls(_, _)
\* The calls cs made in order on a hasher in state self; a panic ends them.
HasherCalls(self, cs) ==
    IF cs = <<>> THEN [self |-> self, panic |-> NoPanic]
    ELSE IF HasherCall(self, Head(cs)).panic # NoPanic
         THEN HasherCall(self, Head(cs))
         ELSE HasherCalls(HasherCall(self, Head(cs)).self, Tail(cs))

\* Each allocator is called at most MaxCalls times in a run.
MaxCalls == 3

\* At most MaxOps calls are made on a hasher before it is replaced.
MaxOps == 3

Clients == {"values", "allocators", "hasher"}

Slots == {1, 2}

Allocs == {1, 2}

U64_42 == <<0, 0, 0, 0, 0, 0, 0, 42>>

\* The u64 arguments of H64::hash: values from both ranges of the repository's
\* tests (0 .. 1000 and u64::MAX - 1000 .. u64::MAX), u64::MAX itself and a
\* value with bits set in every byte.
Samples ==
    { U64_ZERO, U64_ONE, U64_42,
      <<\h01, \h23, \h45, \h67, \h89, \hAB, \hCD, \hEF>>,
      <<\hFF, \hFF, \hFF, \hFF, \hFF, \hFF, \hFC, \h17>>,
      U64_MAX }

\* The u64s whose H64 is fed to the hasher through Hash::hash.
Keys == {U64_ZERO, U64_42, U64_MAX}

\* The u64s given to write_u64 directly.
WriteArgs == {U64_ZERO, U64_ONE, U64_MAX}

\* The byte slices given to write.
ByteSlices == {<<>>, <<0>>, <<1, 2>>}

\* A counter two calls short of wrapping: reached from new() by 2^64 - 2
\* calls of alloc, none of which overflows.
NearWrap == <<\hFF, \hFF, \hFF, \hFF, \hFF, \hFF, \hFF, \hFE>>

InitWith(counter) ==
    /\ client \in Clients
    /\ overflow_checks \in BOOLEAN
    /\ arg = [s \in Slots |-> NONE]
    /\ h64 = [s \in Slots |-> NONE]
    /\ unhashed = [s \in Slots |-> NONE]
    /\ text = <<>>
    /\ next = [a \in Allocs |-> counter]
    /\ returned = [a \in Allocs |-> <<>>]
    /\ lastAlloc = <<>>
    /\ hasher = H64Hasher_default
    /\ log = <<>>
    /\ panicked = NoPanic

\* Every object as its constructor leaves it.
Init == InitWith(H64Allocator_new)

\* As Init, with both allocators 2^64 - 2 calls old; `returned` then holds
\* the values returned from that point on.
InitWrap == InitWith(NearWrap)

Running(c) == client = c /\ panicked = NoPanic

\* let h = H64::hash(i);   in slot s
Hash(s, i) ==
    /\ Running("values")
    /\ arg' = [arg EXCEPT ![s] = i]
    /\ h64' = [h64 EXCEPT ![s] = hash(i)]
    /\ unhashed' = [unhashed EXCEPT ![s] = NONE]
    /\ text' = IF text # <<>> /\ text[1].slot = s THEN <<>> ELSE text
    /\ UNCHANGED <<client, overflow_checks, vars_allocators, vars_hasher,
                   panicked>>

\* h.unhash()   for the H64 in slot s
Unhash(s) ==
    /\ Running("values")
    /\ h64[s] # NONE
    /\ unhashed' = [unhashed EXCEPT ![s] = unhash(h64[s])]
    /\ UNCHANGED <<client, overflow_checks, arg, h64, text, vars_allocators,
                   vars_hasher, panicked>>

\* The formatted output so far of the H64 in slot s.
TextOf(s) ==
    IF text # <<>> /\ text[1].slot = s THEN text[1]
    ELSE [slot |-> s, debug |-> "", display |-> ""]

\* format!("{:?}", h)   for the H64 in slot s
DebugFmt(s) ==
    /\ Running("values")
    /\ h64[s] # NONE
    /\ text' = <<[TextOf(s) EXCEPT !.debug = H64_Debug_fmt(h64[s])]>>
    /\ UNCHANGED <<client, overflow_checks, arg, h64, unhashed,
                   vars_allocators, vars_hasher, panicked>>

\* format!("{}", h)   for the H64 in slot s
DisplayFmt(s) ==
    /\ Running("values")
    /\ h64[s] # NONE
    /\ text' = <<[TextOf(s) EXCEPT !.display = H64_Display_fmt(h64[s])]>>
    /\ UNCHANGED <<client, overflow_checks, arg, h64, unhashed,
                   vars_allocators, vars_hasher, panicked>>

\* The effect of an alloc call on allocator a whose outcome is r.
AllocOutcome(a, r) ==
    /\ next' = [next EXCEPT ![a] = r.self]
    /\ returned' = IF r.panic = NoPanic
                   THEN [returned EXCEPT ![a] = Append(@, r.ret)]
                   ELSE returned
    /\ lastAlloc' = <<[alloc |-> a, counter |-> next[a]]>>
    /\ panicked' = r.panic

\* allocator_a.alloc()
Alloc(a) ==
    /\ Running("allocators")
    /\ Len(returned[a]) < MaxCalls
    /\ AllocOutcome(a, alloc(next[a], overflow_checks))
    /\ UNCHANGED <<client, overflow_checks, vars_values, vars_hasher>>

\* hasher = H64Hasher::default()
HasherDefault ==
    /\ Running("hasher")
    /\ hasher' = H64Hasher_default
    /\ log' = <<>>
    /\ UNCHANGED <<client, overflow_checks, vars_values, vars_allocators,
                   panicked>>

\* The effect of calls on the hasher whose outcome is r, logged as entries.
HasherOutcome(r, entries) ==
    /\ hasher' = r.self
    /\ log' = log \o entries
    /\ panicked' = r.panic

\* hasher.write_u64(i)
WriteU64(i) ==
    /\ Running("hasher")
    /\ Len(log) < MaxOps
    /\ HasherOutcome(write_u64(hasher, i),
                     <<[op |-> "write_u64", val |-> i, key |-> NONE, of |-> 0]>>)
    /\ UNCHANGED <<client, overflow_checks, vars_values, vars_allocators>>

\* hasher.write(bytes)
Write(bytes) ==
    /\ Running("hasher")
    /\ Len(log) < MaxOps
    /\ HasherOutcome(write(hasher, bytes),
                     <<[op |-> "write", val |-> bytes, key |-> NONE, of |-> 0]>>)
    /\ UNCHANGED <<client, overflow_checks, vars_values, vars_allocators>>

\* The calls cs, issued while hashing the H64 made from i, as log entries:
\* each names i and the number of calls issued for it.
Keyed(cs, i) ==
    [n \in 1..Len(cs) |->
        [op |-> cs[n].op, val |-> cs[n].arg, key |-> i, of |-> Len(cs)]]

\* The effect on the hasher of the calls cs issued for the H64 made from i.
FeedOutcome(cs, i) == HasherOutcome(HasherCalls(hasher, cs), Keyed(cs, i))

\* Hash::hash(&H64::hash(i), &mut hasher)
HashKey(i) ==
    /\ Running("hasher")
    /\ Len(log) < MaxOps
    /\ FeedOutcome(H64_Hash_hash(hash(i)), i)
    /\ UNCHANGED <<client, overflow_checks, vars_values, vars_allocators>>

\* hasher.finish()
Finish ==
    /\ Running("hasher")
    /\ Len(log) < MaxOps
    /\ log' = Append(log, [op |-> "finish", val |-> finish(hasher),
                           key |-> NONE, of |-> 0])
    /\ UNCHANGED <<client, overflow_checks, vars_values, vars_allocators,
                   hasher, panicked>>

Next ==
    \/ \E s \in Slots, i \in Samples : Hash(s, i)
    \/ \E s \in Slots : Unhash(s)
    \/ \E s \in Slots : DebugFmt(s)
    \/ \E s \in Slots : DisplayFmt(s)
    \/ \E a \in Allocs : Alloc(a)
    \/ HasherDefault
    \/ \E i \in WriteArgs : WriteU64(i)
    \/ \E bytes \in ByteSlices : Write(bytes)
    \/ \E i \in Keys : HashKey(i)
    \/ Finish

Spec == Init /\ [][Next]_vars

SpecWrap == InitWrap /\ [][Next]_vars

(***************************************************************************)
(* Properties                                                              *)
(***************************************************************************)
Last(q) == q[Len(q)]

\* C1: unhash exactly undoes hash: whenever unhash has been called on the
\* H64 made from a u64 x (0 and u64::MAX included), it returned x.
C1_UnhashUndoesHash ==
    \A s \in Slots : unhashed[s] # NONE => unhashed[s] = arg[s]

C1_Witness ==
    /\ arg[1] = U64_MAX /\ unhashed[1] # NONE
    /\ arg[2] = U64_ZERO /\ unhashed[2] # NONE

\* C2: hash is injective: two H64s are equal (derived PartialEq on the stored
\* bits) iff they were made from equal u64s, and iff their unhash results are
\* equal.
C2_HashInjective ==
    (h64[1] # NONE /\ h64[2] # NONE) =>
        /\ H64_eq(h64[1], h64[2]) <=> (arg[1] = arg[2])
        /\ (unhashed[1] # NONE /\ unhashed[2] # NONE) =>
               (H64_eq(h64[1], h64[2]) <=> (unhashed[1] = unhashed[2]))

C2_Witness ==
    /\ arg[1] = U64_ZERO /\ arg[2] = U64_MAX
    /\ unhashed[1] # NONE /\ unhashed[2] # NONE
    /\ ~H64_eq(h64[1], h64[2])

\* The stored bits of H64::hash(0), H64::hash(1), H64::hash(2).
FirstThree ==
    << <<\h00, \h00, \h00, \h00, \h00, \h00, \h00, \h00>>,
       <<\h56, \h92, \h16, \h1D, \h10, \h0B, \h05, \hE5>>,
       <<\hDB, \hD2, \h38, \h97, \h3A, \h2B, \h14, \h8A>> >>

\* C3: on a freshly constructed allocator the n-th alloc returns hash(n - 1)
\* and leaves the counter at n; the first three calls return hash(0), hash(1),
\* hash(2) in that order.
C3_NthAllocIsHashOfNMinus1 ==
    \A a \in Allocs :
        /\ \A n \in 1..Len(returned[a]) : returned[a][n] = hash(FromNat(n - 1))
        /\ next[a] = FromNat(Len(returned[a]))
        /\ \A n \in 1..Len(returned[a]) : n <= 3 => returned[a][n] = FirstThree[n]

C3_Witness == Len(returned[1]) = 3 /\ Len(returned[2]) = 1

\* C4: alloc on a counter of u64::MAX is not an error: it returns
\* hash(u64::MAX), wraps the counter to 0 and does not panic.
C4_AllocAtMaxWraps ==
    \A n \in 1..Len(lastAlloc) :
        lastAlloc[n].counter = U64_MAX =>
            /\ panicked = NoPanic
            /\ next[lastAlloc[n].alloc] = U64_ZERO
            /\ returned[lastAlloc[n].alloc] # <<>>
            /\ Last(returned[lastAlloc[n].alloc]) = hash(U64_MAX)

\* C5: the values one allocator has returned are pairwise distinct.
C5_AllocDistinct ==
    \A a \in Allocs :
        \A m, n \in 1..Len(returned[a]) :
            m # n => returned[a][m] # returned[a][n]

C5_Witness == \E a \in Allocs : Len(returned[a]) = MaxCalls

\* C6: hashing the H64 made from x into a fresh hasher makes exactly one
\* write_u64 call, with the stored bits of that H64, no write call, and a
\* finish right after it returns exactly those bits.
C6_HashPassthrough ==
    (log # <<>> /\ log[1].key # NONE) =>
        /\ log[1].of = 1
        /\ log[1].op = "write_u64"
        /\ log[1].val = hash(log[1].key)
        /\ (Len(log) = 1) => (panicked = NoPanic /\ hasher = hash(log[1].key))
        /\ (Len(log) >= 2 /\ log[2].op = "finish") =>
               log[2].val = hash(log[1].key)

C6_Witness ==
    /\ Len(log) = 2
    /\ log[1].key = U64_MAX
    /\ log[2].op = "finish"

\* C7: write panics for every hasher state and every byte slice, the empty
\* one included: a write call is the last call of the run, and the run ended
\* in its panic.
C7_WritePanics ==
    \A n \in 1..Len(log) :
        log[n].op = "write" => n = Len(log) /\ panicked = UnimplementedPanic

C7_Witness ==
    /\ Len(log) = 2
    /\ log[1].op = "write_u64" /\ log[1].val = U64_MAX
    /\ log[2].op = "write" /\ log[2].val = <<>>

\* C8: Debug and Display formatting of the H64 made from x both give the
\* decimal text of x; the H64 made from 42 formats as "42".
C8_FmtShowsOriginal ==
    \A n \in 1..Len(text) :
        /\ text[n].debug \in {"", u64_fmt(arg[text[n].slot])}
        /\ text[n].display \in {"", u64_fmt(arg[text[n].slot])}
        /\ arg[text[n].slot] = U64_42 => text[n].debug \in {"", "42"}
        /\ arg[text[n].slot] = U64_42 => text[n].display \in {"", "42"}
        /\ arg[text[n].slot] = U64_MAX =>
               text[n].debug \in {"", "18446744073709551615"}

C8_Witness ==
    /\ text # <<>>
    /\ arg[text[1].slot] = U64_42
    /\ text[1].debug = "42"
    /\ text[1].display = "42"

RECURSIVE LastWritten(_, _)
\* The argument of the last write_u64 among the first n calls of the log; 0,
\* the state of a default hasher, when there is none.
LastWritten(q, n) ==
    IF n = 0 THEN U64_ZERO
    ELSE IF q[n].op = "write_u64" THEN q[n].val
    ELSE LastWritten(q, n - 1)

\* C9: the hasher overwrites: finish returns the argument of the most recent
\* write_u64, or 0 when there was none, and leaves the state as it was.
C9_HasherOverwrites ==
    \A n \in 1..Len(log) :
        log[n].op = "finish" =>
            /\ log[n].val = LastWritten(log, n - 1)
            /\ n = Len(log) => hasher = LastWritten(log, n - 1)

C9_Witness ==
    /\ Len(log) = 3
    /\ log[1].op = "write_u64" /\ log[1].val = U64_MAX
    /\ log[2].op = "write_u64" /\ log[2].val = U64_ONE
    /\ log[3].op = "finish"

\* C10: two independently constructed allocators return the same sequence:
\* the k-th value of one is the k-th value of the other, however their calls
\* interleave, so their first values collide.
C10_AllocatorsAgree ==
    \A k \in 1..Len(returned[1]) :
        k <= Len(returned[2]) => returned[1][k] = returned[2][k]

C10_Witness ==
    /\ Len(returned[1]) = 3
    /\ Len(returned[2]) = 2
    /\ returned[1][1] = returned[2][1]
====
